---- MODULE Spec2Model ----
(***************************************************************************)
(* The GAN engine of mlpack (src/mlpack/methods/ann/gan/gan_impl.hpp) as a *)
(* call/return state machine: the engine's fields, the optimizer's         *)
(* gradient buffer, and one action per public operation.  The two long     *)
(* routines (Evaluate, EvaluateWithGradient) are cut at the points where   *)
(* the discriminator is about to be evaluated on the generated slice and   *)
(* where the generator-update sub-step runs, so that the states in between *)
(* can be observed.                                                        *)
(*                                                                         *)
(* Data abstraction.  A matrix is the sequence of its columns (predictors, *)
(* responses) or of its elements (parameter, gradient).  The sub-models    *)
(* (FFN) are external: a gradient they compute is a vector whose elements  *)
(* all carry one value of GradVals (a non-zero value, so that an element   *)
(* of a gradient buffer is zero exactly when nothing was written to it     *)
(* since it was zeroed), a generator output is one value of GenVals per    *)
(* call, the initialization rule writes InitWeight, and an optimizer step  *)
(* moves exactly the weights whose gradient is non-zero.                   *)
(* A matrix view built on foreign memory is a record: the buffer it points *)
(* into, the offset and the length.                                        *)
(***************************************************************************)
EXTENDS Integers, Sequences, FiniteSets, TLC

\* ------------------------------------------------------------- bounds
MaxBatch == 3        \* EvaluateWithGradient calls explored per ResetData
MaxPreTrain == 2     \* largest constructor preTrainSize
MaxUpdateStep == 2   \* largest constructor generatorUpdateStep
MaxBatchSize == 2    \* largest constructor batchSize
MaxSamples == 2      \* largest number of training columns

\* ------------------------------------------------------------- values
Labels == {0, 1}         \* values of realLabel / fakeLabel given to ResetData
GradVals == {1}          \* element value of a gradient computed by a sub-model
GenVals == {9}           \* column value produced by the generator
Multipliers == {2}       \* constructor multiplier
Uninit == 0 - 1          \* content of memory left unwritten by set_size
InitWeight == 0          \* weight value written by the initialization rule
Trained == 1             \* weight value after an optimizer update

\* Per-layer weight counts of the two networks handed to the constructor.
GeneratorLayers == <<1, 1>>
DiscriminatorLayers == <<2, 1>>
IdentityLayer == 0

VARIABLES
  batchSize, generatorUpdateStep, multiplier,   \* constructor arguments
  generatorNetwork, discriminatorNetwork,       \* layer graphs (weight sizes)
  preTrainSize, currentBatch, reset, deterministic,
  genWeights, discWeights, realLabel, fakeLabel, numFunctions,
  parameter, genParameters, discParameters,     \* buffer and the two views
  genDeterministic, discDeterministic,          \* the sub-models' flags
  predictors, responses,                        \* fused matrices
  gradient,                                     \* the caller's gradient buffer
  gradientGenerator, gradientDiscriminator,     \* views into gradient
  noiseGradientDiscriminator,                   \* scratch gradient buffer
  archive,                                      \* what serialize() last saved
  pc,                                           \* position inside a routine
  entry,                                        \* the last gradient call's entry state
  metric                                        \* a FrechetDistance call: arguments, result

config == <<batchSize, generatorUpdateStep, multiplier, generatorNetwork,
            discriminatorNetwork>>
arena == <<genWeights, discWeights, parameter, genParameters, discParameters,
           reset>>
modes == <<deterministic, genDeterministic, discDeterministic>>
data == <<predictors, responses, numFunctions, realLabel, fakeLabel>>
grads == <<gradient, gradientGenerator, gradientDiscriminator,
           noiseGradientDiscriminator>>
counters == <<preTrainSize, currentBatch>>
control == <<pc, entry>>
vars == <<config, arena, modes, data, grads, counters, archive, control,
          metric>>

\* ------------------------------------------------------------- helpers
RECURSIVE Sum(_)
Sum(s) == IF s = <<>> THEN 0 ELSE Head(s) + Sum(Tail(s))

Fill(n, v) == [k \in 1..n |-> v]
Zeros(n) == Fill(n, 0)

NoView == [mem |-> "none", off |-> 0, len |-> 0]
View(m, o, l) == [mem |-> m, off |-> o, len |-> l]

\* The elements of buffer buf a view covers.
Slice(buf, v) == SubSeq(buf, v.off + 1, v.off + v.len)
\* buf with the elements under view v replaced by the elements of w.
WriteSlice(buf, v, w) ==
  [k \in 1..Len(buf) |->
     IF k > v.off /\ k <= v.off + v.len THEN w[k - v.off] ELSE buf[k]]
Indices(v) == (v.off + 1)..(v.off + v.len)

\* What is remembered of the most recent EvaluateWithGradient call since the
\* data was loaded: the two counters on entry, and whether the
\* generator-update sub-step has run in the call.
Snapshot == <<[batch |-> currentBatch, pre |-> preTrainSize, gate |-> FALSE]>>
NoSnapshot == <<>>

\* ------------------------------------------------------------- Reset
\* A faulty Reset that puts the discriminator's view at the buffer's start.
ResetArenaOverlapping ==
  LET gw == Sum(generatorNetwork)
      dw == Sum(discriminatorNetwork)
  IN [genWeights |-> gw,
      discWeights |-> dw,
      parameter |-> Fill(gw + dw, InitWeight),
      genParameters |-> View("parameter", 0, gw),
      discParameters |-> View("parameter", 0, dw),
      reset |-> TRUE]

\* The fields Reset() writes, as it leaves them.
ResetArena ==
  LET gw == Sum(generatorNetwork)
      dw == Sum(discriminatorNetwork)
  IN [genWeights |-> gw,
      discWeights |-> dw,
      parameter |-> Fill(gw + dw, InitWeight),
      genParameters |-> View("parameter", 0, gw),
      discParameters |-> View("parameter", gw, dw),
      reset |-> TRUE]

CurrentArena ==
  [genWeights |-> genWeights,
   discWeights |-> discWeights,
   parameter |-> parameter,
   genParameters |-> genParameters,
   discParameters |-> discParameters,
   reset |-> reset]

\* A faulty entry check that runs Reset whatever the buffer holds.
LazyResetAlways == ResetArena

\* if (parameter.is_empty()) Reset();
LazyReset == IF parameter = <<>> THEN ResetArena ELSE CurrentArena

\* A faulty tail of ResetData that ignores the latch.
LatchedResetAlways == ResetArena

\* if (!reset) Reset();   -- the tail of ResetData
LatchedReset == IF ~reset THEN ResetArena ELSE CurrentArena

SetArena(a) ==
  /\ genWeights' = a.genWeights
  /\ discWeights' = a.discWeights
  /\ parameter' = a.parameter
  /\ genParameters' = a.genParameters
  /\ discParameters' = a.discParameters
  /\ reset' = a.reset

\* ------------------------------------------------------------- modes
\* A faulty ResetDeterministic that forgets the generator.
ResetDeterministicDiscriminatorOnly(d) ==
  /\ discDeterministic' = d
  /\ UNCHANGED genDeterministic

\* ResetDeterministic(): both sub-models take the engine's flag d.
ResetDeterministic(d) ==
  /\ discDeterministic' = d
  /\ genDeterministic' = d

\* if (!deterministic) { deterministic = true; ResetDeterministic(); }
ForceInference ==
  /\ deterministic' = TRUE
  /\ IF ~deterministic THEN ResetDeterministic(TRUE)
                       ELSE UNCHANGED <<genDeterministic, discDeterministic>>

\* if (deterministic) { deterministic = false; ResetDeterministic(); }
ForceTraining ==
  /\ deterministic' = FALSE
  /\ IF deterministic THEN ResetDeterministic(FALSE)
                      ELSE UNCHANGED <<genDeterministic, discDeterministic>>

\* ------------------------------------------------------------- Init
\* The engine as the constructor leaves it.  generatorUpdateStep is at least
\* 1 (line 414 divides by it); the sub-models arrive with flags of their own.
Constructed ==
  /\ batchSize \in 1..MaxBatchSize
  /\ generatorUpdateStep \in 1..MaxUpdateStep
  /\ multiplier \in Multipliers
  /\ generatorNetwork = GeneratorLayers
  /\ discriminatorNetwork = <<IdentityLayer>> \o DiscriminatorLayers
  /\ preTrainSize \in 0..MaxPreTrain
  /\ currentBatch = 0
  /\ reset = FALSE
  /\ deterministic = FALSE
  /\ genWeights = 0
  /\ discWeights = 0
  /\ realLabel = 0
  /\ fakeLabel = 0
  /\ numFunctions = 0
  /\ parameter = <<>>
  /\ genParameters = NoView
  /\ discParameters = NoView
  /\ genDeterministic \in BOOLEAN
  /\ discDeterministic \in BOOLEAN
  /\ predictors = <<>>
  /\ responses = <<>>
  /\ gradient = <<>>
  /\ gradientGenerator = NoView
  /\ gradientDiscriminator = NoView
  /\ noiseGradientDiscriminator = <<>>
  /\ archive = <<>>
  /\ pc = "idle"
  /\ entry = NoSnapshot

\* No FrechetDistance call is under way.
NoMetric == [p |-> <<>>, pw |-> <<>>, result |-> <<>>]

Init ==
  /\ Constructed
  /\ metric = NoMetric

\* ------------------------------------------------------------- ResetData
\* The fused predictor matrix: the training columns, then batchSize columns
\* that set_size leaves unwritten.
FusedPredictors(trainData) == trainData \o Fill(batchSize, Uninit)
\* The fused response row: realLabel for every training column, then
\* batchSize columns of fakeLabel.
FusedResponses(n, rl, fl) == Fill(n, rl) \o Fill(batchSize, fl)

\* A training set of n columns; a column is named by its number.
TrainData(n) == [k \in 1..n |-> k]

\* A faulty ResetData that keeps the step counter.
RestartBatchesNever == UNCHANGED currentBatch

\* Line 151.
RestartBatches == currentBatch' = 0

\* Lines 152-153.
StoreLabels(rl, fl) ==
  /\ realLabel' = rl
  /\ fakeLabel' = fl

ResetData(n, rl, fl) ==
  /\ pc = "idle"
  /\ RestartBatches
  /\ StoreLabels(rl, fl)
  /\ numFunctions' = n
  /\ deterministic' = TRUE
  /\ ResetDeterministic(TRUE)
  /\ predictors' = FusedPredictors(TrainData(n))
  /\ responses' = FusedResponses(n, rl, fl)
  /\ SetArena(LatchedReset)
  /\ entry' = NoSnapshot
  /\ UNCHANGED <<metric, config, grads, preTrainSize, archive, pc>>

\* ------------------------------------------------------------- sub-models
\* FFN::EvaluateWithGradient / FFN::Gradient on a gradient argument: an empty
\* argument is allocated to the sub-model's own parameter count, any other is
\* overwritten in place; every element of the result carries g.
FFNGradient(buf, paramLen, g) ==
  IF buf = <<>> THEN Fill(paramLen, g) ELSE Fill(Len(buf), g)

\* A faulty write of the generator's output to the leading batchSize columns.
WriteGeneratedLeading(pred, s) ==
  [k \in 1..Len(pred) |-> IF k <= batchSize THEN s ELSE pred[k]]

\* predictors.cols(numFunctions, numFunctions + batchSize - 1) = <generator
\* output>: the trailing batchSize columns take the generated value s.
WriteGenerated(pred, s) ==
  [k \in 1..Len(pred) |->
     IF k > numFunctions /\ k <= numFunctions + batchSize THEN s ELSE pred[k]]

\* A faulty relabelling that starts one column late.
RelabelSkippingFirst(resp, label) ==
  [k \in 1..Len(resp) |->
     IF k > numFunctions + 1 /\ k <= numFunctions + batchSize THEN label
     ELSE resp[k]]

\* responses.cols(numFunctions, numFunctions + batchSize - 1) = <label>.
Relabel(resp, label) ==
  [k \in 1..Len(resp) |->
     IF k > numFunctions /\ k <= numFunctions + batchSize THEN label
     ELSE resp[k]]

\* ------------------------------------------------------------- Evaluate
\* A faulty Evaluate that leaves the labels of the generated slice as the
\* previous call left them.
EvaluateBeginKeepingLabels(i, s) ==
  /\ pc = "idle"
  /\ numFunctions > 0
  /\ SetArena(LazyReset)
  /\ ForceInference
  /\ predictors' = WriteGenerated(predictors, s)
  /\ pc' = "EvaluateFake"
  /\ UNCHANGED <<metric, config, grads, counters, responses, numFunctions,
                 realLabel, fakeLabel, archive, entry>>

\* Lines 294-332: up to the point where the loss of the generated slice is
\* about to be taken.  The caller has loaded data (the routine reads the
\* fused matrices) and passes an index i below numFunctions.
EvaluateBegin(i, s) ==
  /\ pc = "idle"
  /\ numFunctions > 0
  /\ SetArena(LazyReset)
  /\ ForceInference
  /\ predictors' = WriteGenerated(predictors, s)
  /\ responses' = Relabel(responses, fakeLabel)
  /\ pc' = "EvaluateFake"
  /\ UNCHANGED <<metric, config, grads, counters, numFunctions, realLabel, fakeLabel,
                 archive, entry>>

\* Lines 334-341: the loss of the generated slice, and the return.
EvaluateEnd ==
  /\ pc = "EvaluateFake"
  /\ pc' = "idle"
  /\ UNCHANGED <<metric, config, arena, modes, data, grads, counters, archive, entry>>

\* ------------------------------------------------------------- EvaluateWithGradient
\* Faulty gates: one that forgets the pretraining counter, one that opens on
\* the last call of each cycle instead of the first.
GateOpenIgnoringPreTrain(batch, step, pre) == batch % step = 0
GateOpenAfterStep(batch, step, pre) == (batch + 1) % step = 0 /\ pre = 0

\* A faulty gate that forgets the cadence.
GateOpenEveryCall(batch, step, pre) == pre = 0

\* Line 414: the generator update gate.
GateOpen(batch, step, pre) == batch % step = 0 /\ pre = 0

\* Lines 364-371: the output gradient buffer, zeroed; an empty one is
\* allocated to the parameter count.
ZeroGradient(grad, paramLen) ==
  IF grad = <<>> THEN Zeros(paramLen) ELSE Zeros(Len(grad))

\* Lines 379-387: the scratch buffer, zeroed; an empty one is allocated to
\* the element count the discriminator gradient view has at that moment.
ZeroScratch(scratch, viewLen) ==
  IF scratch = <<>> THEN Zeros(viewLen) ELSE Zeros(Len(scratch))

\* Lines 389-394: the two views into the output gradient buffer.
GeneratorGradientView(a) == View("gradient", 0, a.genParameters.len)
DiscriminatorGradientView(a) ==
  View("gradient", GeneratorGradientView(a).len, a.discParameters.len)

\* Lines 359-407: up to the point where the discriminator is about to be
\* evaluated on the generated slice.  passed is the buffer the caller hands
\* in, g the discriminator's gradient on the real slice, s the generator's
\* output.
EWGBegin(i, passed, g, s) ==
  /\ pc = "idle"
  /\ numFunctions > 0
  /\ currentBatch < MaxBatch
  /\ LET a == LazyReset
         gD == DiscriminatorGradientView(a)
         zeroed == ZeroGradient(passed, Len(a.parameter))
     IN /\ SetArena(a)
        /\ noiseGradientDiscriminator' =
             ZeroScratch(noiseGradientDiscriminator, gradientDiscriminator.len)
        /\ gradientGenerator' = GeneratorGradientView(a)
        /\ gradientDiscriminator' = gD
        /\ gradient' = WriteSlice(zeroed, gD,
                                  FFNGradient(Slice(zeroed, gD), gD.len, g))
  /\ ForceTraining
  /\ predictors' = WriteGenerated(predictors, s)
  /\ responses' = Relabel(responses, fakeLabel)
  /\ pc' = "EWGFake"
  /\ entry' = Snapshot
  /\ UNCHANGED <<metric, config, counters, numFunctions, realLabel, fakeLabel,
                 archive>>

\* A faulty return that decrements the pretraining counter unguarded.
FinishDecrementing ==
  /\ currentBatch' = currentBatch + 1
  /\ preTrainSize' = preTrainSize - 1
  /\ pc' = "idle"

\* A faulty return that counts the call twice.
FinishAdvancingTwice ==
  /\ currentBatch' = currentBatch + 2
  /\ preTrainSize' = IF preTrainSize > 0 THEN preTrainSize - 1 ELSE preTrainSize
  /\ pc' = "idle"

\* Lines 433-441: the counters, and the return.
Finish ==
  /\ currentBatch' = currentBatch + 1
  /\ preTrainSize' = IF preTrainSize > 0 THEN preTrainSize - 1 ELSE preTrainSize
  /\ pc' = "idle"

\* Lines 410-420: the discriminator on the generated slice (gradient g into
\* the scratch buffer, added to the discriminator segment), then the gate;
\* an open gate relabels the generated slice as real.
EWGFake(g) ==
  /\ pc = "EWGFake"
  /\ LET scratch == FFNGradient(noiseGradientDiscriminator,
                                discParameters.len, g)
         seg == Slice(gradient, gradientDiscriminator)
     IN /\ noiseGradientDiscriminator' = scratch
        /\ gradient' = WriteSlice(gradient, gradientDiscriminator,
                                  [k \in 1..Len(seg) |-> seg[k] + scratch[k]])
  /\ IF GateOpen(currentBatch, generatorUpdateStep, preTrainSize)
     THEN /\ responses' = Relabel(responses, realLabel)
          /\ entry' = <<[entry[1] EXCEPT !.gate = TRUE]>>
          /\ pc' = "EWGGenerator"
          /\ UNCHANGED counters
     ELSE /\ Finish
          /\ UNCHANGED <<responses, entry>>
  /\ UNCHANGED <<metric, config, arena, modes, predictors, numFunctions, realLabel,
                 fakeLabel, gradientGenerator, gradientDiscriminator,
                 archive>>

\* Lines 421-441: the generator-update sub-step.  gd is the discriminator's
\* gradient recomputed into the scratch buffer, gg the generator's gradient,
\* written through the generator view and scaled by the multiplier.
EWGGenerator(gd, gg) ==
  /\ pc = "EWGGenerator"
  /\ noiseGradientDiscriminator' =
       FFNGradient(noiseGradientDiscriminator, discParameters.len, gd)
  /\ LET seg == FFNGradient(Slice(gradient, gradientGenerator),
                            genParameters.len, gg)
     IN gradient' = WriteSlice(gradient, gradientGenerator,
                               [k \in 1..Len(seg) |-> seg[k] * multiplier])
  /\ Finish
  /\ UNCHANGED <<metric, config, arena, modes, data, gradientGenerator,
                 gradientDiscriminator, archive, entry>>

\* The optimizer's entry points.  The caller hands in the gradient buffer it
\* holds, or a fresh empty one.
EvaluateWithGradient ==
  \E i \in 0..(numFunctions - 1), fresh \in BOOLEAN, g \in GradVals, s \in GenVals :
    EWGBegin(i, IF fresh THEN <<>> ELSE gradient, g, s)

\* A faulty Gradient that delegates to the loss-only routine.
GradientCallEvaluating(i, passed, g, s) == EvaluateBegin(i, s)

\* Lines 450-460: Gradient forwards its arguments to EvaluateWithGradient and
\* drops the loss.
GradientCall(i, passed, g, s) == EWGBegin(i, passed, g, s)

Gradient ==
  \E i \in 0..(numFunctions - 1), fresh \in BOOLEAN, g \in GradVals, s \in GenVals :
    GradientCall(i, IF fresh THEN <<>> ELSE gradient, g, s)

Evaluate ==
  \E i \in 0..(numFunctions - 1), s \in GenVals : EvaluateBegin(i, s)

\* ------------------------------------------------------------- Shuffle
\* A faulty Shuffle that copies one column of the ordering everywhere.
ShuffleColumnsDuplicating(pred, n, ordering) ==
  [k \in 1..Len(pred) |-> IF k <= n THEN pred[ordering[1]] ELSE pred[k]]

\* predictors.cols(0, numFunctions - 1) = predictors.cols(ordering)
ShuffleColumns(pred, n, ordering) ==
  [k \in 1..Len(pred) |-> IF k <= n THEN pred[ordering[k]] ELSE pred[k]]

\* The caller has loaded data (line 471 computes numFunctions - 1).
Shuffle ==
  /\ pc = "idle"
  /\ numFunctions > 0
  /\ \E ordering \in Permutations(1..numFunctions) :
       predictors' = ShuffleColumns(predictors, numFunctions, ordering)
  /\ UNCHANGED <<metric, config, arena, modes, responses, numFunctions, realLabel,
                 fakeLabel, grads, counters, archive, control>>

\* ------------------------------------------------------------- Forward / Predict
Forward ==
  /\ pc = "idle"
  /\ SetArena(LazyReset)
  /\ UNCHANGED <<metric, config, modes, data, grads, counters, archive, control>>

Predict ==
  /\ pc = "idle"
  /\ SetArena(LazyReset)
  /\ ForceInference
  /\ UNCHANGED <<metric, config, data, grads, counters, archive, control>>

\* ------------------------------------------------------------- Train
\* Optimizer.Optimize(*this, parameter): the optimizer updates the parameter
\* buffer in place from the gradient buffer it holds; a weight moves exactly
\* when its gradient element is non-zero.
OptimizerUpdate(param, grad) ==
  [k \in 1..Len(param) |-> IF grad[k] # 0 THEN Trained ELSE param[k]]

OptimizerStep ==
  /\ pc = "idle"
  /\ parameter # <<>>
  /\ Len(gradient) = Len(parameter)
  /\ parameter' = OptimizerUpdate(parameter, gradient)
  /\ UNCHANGED <<metric, config, genWeights, discWeights, genParameters,
                 discParameters, reset, modes, data, grads, counters, archive,
                 control>>

\* ------------------------------------------------------------- serialize
\* Lines 553-558, saving: the fields written to the archive.
Saved ==
  [parameter |-> parameter, reset |-> reset, genWeights |-> genWeights,
   discWeights |-> discWeights]

Save ==
  /\ pc = "idle"
  /\ archive' = <<Saved>>
  /\ UNCHANGED <<metric, config, arena, modes, data, grads, counters, control>>

\* A faulty load that reads the fields back and leaves the two views where
\* they pointed before.
LoadedArenaStaleViews(ar) ==
  [genWeights |-> ar.genWeights,
   discWeights |-> ar.discWeights,
   parameter |-> ar.parameter,
   genParameters |-> genParameters,
   discParameters |-> discParameters,
   reset |-> ar.reset]

\* Lines 553-588, loading: the fields read back, the two parameter views
\* rebuilt on the loaded buffer, and inference mode.
LoadedArena(ar) ==
  [genWeights |-> ar.genWeights,
   discWeights |-> ar.discWeights,
   parameter |-> ar.parameter,
   genParameters |-> View("parameter", 0, ar.genWeights),
   discParameters |-> View("parameter", ar.genWeights, ar.discWeights),
   reset |-> ar.reset]

Load ==
  /\ pc = "idle"
  /\ archive # <<>>
  /\ SetArena(LoadedArena(archive[1]))
  /\ deterministic' = TRUE
  /\ ResetDeterministic(TRUE)
  /\ UNCHANGED <<metric, config, data, grads, counters, archive, control>>

\* ------------------------------------------------------------- the engine
Next ==
  \/ \E n \in 1..MaxSamples, rl \in Labels, fl \in Labels : ResetData(n, rl, fl)
  \/ Evaluate
  \/ EvaluateEnd
  \/ EvaluateWithGradient
  \/ Gradient
  \/ \E g \in GradVals : EWGFake(g)
  \/ \E gd \in GradVals, gg \in GradVals : EWGGenerator(gd, gg)
  \/ Shuffle
  \/ Forward
  \/ Predict
  \/ OptimizerStep

Spec == Init /\ [][Next]_vars

\* The end-to-end scenario: an engine constructed with generatorUpdateStep = 2
\* and preTrainSize = 0.
InitScenario ==
  /\ Init
  /\ generatorUpdateStep = 2
  /\ preTrainSize = 0

SpecScenario == InitScenario /\ [][Next]_vars

\* The engine with persistence: serialize() may save the engine and load the
\* archive back into it between any two operations.  Batch size and update
\* cadence, which neither the arena nor the mode flags depend on, are fixed.
InitPersist ==
  /\ Init
  /\ batchSize = 1
  /\ generatorUpdateStep = 1

NextPersist ==
  \/ Next
  \/ Save
  \/ Load

SpecPersist == InitPersist /\ [][NextPersist]_vars

\* A training run: the data is loaded once, and then the optimizer calls
\* EvaluateWithGradient (or Gradient) again and again, each call running to
\* its return; no ResetData intervenes.  The run is followed for MaxBatch
\* calls, a horizon that covers the pretraining window and one cycle of the
\* cadence after it.
InitCadence ==
  /\ Init
  /\ preTrainSize + generatorUpdateStep <= MaxBatch

FirstResetData ==
  /\ numFunctions = 0
  /\ \E n \in 1..MaxSamples, rl \in Labels, fl \in Labels : ResetData(n, rl, fl)

CallStep ==
  \/ EvaluateWithGradient
  \/ Gradient

BodyStep ==
  \/ \E g \in GradVals : EWGFake(g)
  \/ \E gd \in GradVals, gg \in GradVals : EWGGenerator(gd, gg)

NextCadence ==
  \/ FirstResetData
  \/ CallStep
  \/ BodyStep

\* The caller loads the data and keeps calling; a call that has been entered
\* runs to its return.
SpecCadence ==
  /\ InitCadence
  /\ [][NextCadence]_vars
  /\ WF_vars(FirstResetData)
  /\ WF_vars(CallStep)
  /\ WF_vars(BodyStep)

\* ------------------------------------------------------------- FrechetDistance
\* metrics/frechet_distance.hpp.  A sample matrix is the sequence of its
\* columns (points), a column the sequence of its coordinates.  A double is
\* a fixed-point number: the integer n stands for n / FixedScale; a
\* division or a square root rounds down to the next multiple of
\* 1 / FixedScale.  The square root of a negative number is NaN.
FixedScale == 100
SampleVals == {0, 1, 2}
SampleDims == {1, 2}
SamplePoints == {1, 2}
SampleMatrices == [SamplePoints -> [SampleDims -> SampleVals]]

Real(n) == [nan |-> FALSE, val |-> n]
NaN == [nan |-> TRUE, val |-> 0]

Max(a, b) == IF a >= b THEN a ELSE b
\* The largest r with r * r <= n, for n >= 0.
ISqrt(n) == CHOOSE r \in 0..Max(n, 1) : r * r <= n /\ n < (r + 1) * (r + 1)

Dims(m) == 1..Len(m[1])
\* arma::mean(m, 1): the mean of each row (coordinate).
Mean(m) ==
  [a \in Dims(m) |-> (FixedScale * Sum([k \in 1..Len(m) |-> m[k][a]])) \div Len(m)]
\* arma::cov(trans(m)): the covariance of the coordinates, normalised by the
\* number of points less one.
Cov(m) ==
  LET mu == Mean(m)
      dev(k, a) == FixedScale * m[k][a] - mu[a]
  IN [a \in Dims(m) |-> [b \in Dims(m) |->
        Sum([k \in 1..Len(m) |-> dev(k, a) * dev(k, b)])
          \div (FixedScale * (Len(m) - 1))]]
\* c * trans(cW)
TimesTransposed(c, cW) ==
  [a \in DOMAIN c |-> [b \in DOMAIN c |->
     Sum([k \in 1..Len(c) |-> c[a][k] * cW[b][k]]) \div FixedScale]]
\* arma::sqrt: the square root of each element, one by one.  Only the
\* diagonal is kept (arma::trace reads nothing else).
ElementSqrt(m) ==
  [a \in DOMAIN m |-> IF m[a][a] < 0 THEN NaN
                      ELSE Real(ISqrt(m[a][a] * FixedScale))]
\* arma::norm(v, 2)
Norm2(v) == ISqrt(Sum([a \in DOMAIN v |-> v[a] * v[a]]))

\* Lines 50-65.
FrechetEvaluate(p, pw) ==
  LET mp == Mean(p)
      mw == Mean(pw)
      firstTerm == Norm2([a \in Dims(p) |-> mp[a] - mw[a]])
      c == Cov(p)
      cW == Cov(pw)
      root == ElementSqrt(TimesTransposed(c, cW))
      secondTerm ==
        Sum([a \in Dims(p) |-> c[a][a] + cW[a][a] - 2 * root[a].val])
  IN IF \E a \in Dims(p) : root[a].nan THEN NaN
     ELSE Real(firstTerm + secondTerm)

\* A caller computes the distance between the two sample matrices it holds.
FrechetCall ==
  /\ metric.result = <<>>
  /\ metric' = [metric EXCEPT !.result = <<FrechetEvaluate(metric.p, metric.pw)>>]
  /\ UNCHANGED <<config, arena, modes, data, grads, counters, archive, control>>

\* A caller that holds two sample matrices of the same shape; the engine is
\* not involved.
InitFrechet ==
  /\ Constructed
  /\ batchSize = 1
  /\ generatorUpdateStep = 1
  /\ preTrainSize = 0
  /\ genDeterministic
  /\ discDeterministic
  /\ \E p \in SampleMatrices, pw \in SampleMatrices :
       metric = [p |-> p, pw |-> pw, result |-> <<>>]

SpecFrechet == InitFrechet /\ [][FrechetCall]_vars

\* ------------------------------------------------------------- properties
Loaded == numFunctions > 0
Trailing == (numFunctions + 1)..(numFunctions + batchSize)
GeneratorSegment == 1..genWeights
DiscriminatorSegment == (genWeights + 1)..(genWeights + discWeights)
AllZero(buf, idx) == \A k \in idx : buf[k] = 0
NoneZero(buf, idx) == \A k \in idx : buf[k] # 0
Called == entry # NoSnapshot
\* The gate condition on the entry state of the last gradient call.
EntryGate ==
  entry[1].batch % generatorUpdateStep = 0 /\ entry[1].pre = 0
\* A step that enters, and a step that returns from, EvaluateWithGradient.
EWGEnter == EvaluateWithGradient \/ Gradient
EWGReturn == pc \in {"EWGFake", "EWGGenerator"} /\ pc' = "idle"

\* C1: a gradient call whose entry state does not satisfy currentBatch mod
\* generatorUpdateStep = 0 and preTrainSize = 0 leaves the generator segment
\* of the output gradient all zero (during the call and after it), and an
\* optimizer step on that gradient leaves the generator's parameters as
\* they were.
C1_GeneratorSegmentOnlyOnGate ==
  /\ []((Called /\ ~EntryGate) =>
          /\ Len(gradient) = genWeights + discWeights
          /\ AllZero(gradient, GeneratorSegment))
  /\ [][(OptimizerStep /\ Called /\ ~EntryGate) =>
          Slice(parameter', genParameters) = Slice(parameter, genParameters)]_vars

\* A call made while the pretraining counter was still positive, on a batch
\* number the cadence would have admitted, has returned with the
\* discriminator segment written.
C1_Witness ==
  /\ pc = "idle"
  /\ Called
  /\ entry[1].pre > 0
  /\ entry[1].batch % generatorUpdateStep = 0
  /\ NoneZero(gradient, DiscriminatorSegment)
  /\ AllZero(gradient, GeneratorSegment)

\* C2 as stated: with generatorUpdateStep = 2 and preTrainSize = 0, each of
\* the first two gradient calls after ResetData writes the discriminator
\* segment, and the generator segment is written on the second call and not
\* on the first.
C2_GeneratorOnSecondCall ==
  (pc = "idle" /\ Called) =>
    /\ entry[1].batch \in {0, 1} => NoneZero(gradient, DiscriminatorSegment)
    /\ entry[1].batch = 0 =>
         (~entry[1].gate /\ AllZero(gradient, GeneratorSegment))
    /\ entry[1].batch = 1 =>
         (entry[1].gate /\ NoneZero(gradient, GeneratorSegment))

\* C2 amended: with generatorUpdateStep = 2 and preTrainSize = 0, each of the
\* first two gradient calls after ResetData writes the discriminator segment,
\* and the generator-update sub-step runs (generator segment written) on the
\* first call and not on the second.
C2_GeneratorOnFirstCall ==
  (pc = "idle" /\ Called) =>
    /\ entry[1].batch \in {0, 1} => NoneZero(gradient, DiscriminatorSegment)
    /\ entry[1].batch = 0 =>
         (entry[1].gate /\ NoneZero(gradient, GeneratorSegment))
    /\ entry[1].batch = 1 =>
         (~entry[1].gate /\ AllZero(gradient, GeneratorSegment))

\* The second gradient call after ResetData has returned.
C2_Witness ==
  /\ pc = "idle"
  /\ Called
  /\ entry[1].batch = 1
  /\ currentBatch = 2
  /\ NoneZero(gradient, DiscriminatorSegment)

\* C3 as stated: whenever no call is in progress the trailing batchSize
\* response columns all equal fakeLabel.
C3_TrailingFakeAfterReturn ==
  (pc = "idle" /\ Loaded) => \A k \in Trailing : responses[k] = fakeLabel

\* C3 amended: when a gradient call returns, the trailing batchSize response
\* columns all equal fakeLabel if the generator-update sub-step did not run
\* in the call and all equal realLabel if it ran (the sub-step does not
\* restore them); while the sub-step is executing they equal realLabel.
C3_TrailingAfterReturn ==
  /\ [][EWGReturn =>
          \A k \in Trailing :
            responses'[k] = IF entry'[1].gate THEN realLabel ELSE fakeLabel]_vars
  /\ [](pc = "EWGGenerator" => \A k \in Trailing : responses[k] = realLabel)

\* A call on which the sub-step ran has returned, with labels that differ.
C3_Witness ==
  /\ pc = "idle"
  /\ Called
  /\ entry[1].gate
  /\ realLabel # fakeLabel
  /\ currentBatch = entry[1].batch + 1
  /\ \A k \in Trailing : responses[k] = realLabel

\* C4: a gradient call decrements preTrainSize by one when it was positive
\* on entry and leaves it at zero otherwise; no other step changes it, and
\* it is never negative.
C4_PreTrainCountsDown ==
  /\ [](preTrainSize >= 0)
  /\ [][IF EWGReturn
          THEN /\ preTrainSize = entry[1].pre
               /\ preTrainSize' =
                    IF entry[1].pre > 0 THEN entry[1].pre - 1 ELSE 0
          ELSE preTrainSize' = preTrainSize]_vars

\* A gradient call entered with the counter at one has returned and left it
\* at zero.
C4_Witness ==
  /\ pc = "idle"
  /\ Called
  /\ entry[1].pre = 1
  /\ currentBatch = entry[1].batch + 1
  /\ preTrainSize = 0

ResetDataCall ==
  \E n \in 1..MaxSamples, rl \in Labels, fl \in Labels : ResetData(n, rl, fl)

\* C5: once data has been loaded, the parameter buffer has genWeights +
\* discWeights elements, the generator's view is the range [0, genWeights)
\* of that buffer and the discriminator's view the range [genWeights,
\* genWeights + discWeights); the two views point into the buffer, do not
\* overlap and cover it.
C5_ParameterViewsPartition ==
  Loaded =>
    /\ Len(parameter) = genWeights + discWeights
    /\ genParameters = View("parameter", 0, genWeights)
    /\ discParameters = View("parameter", genWeights, discWeights)
    /\ Indices(genParameters) \cap Indices(discParameters) = {}
    /\ Indices(genParameters) \cup Indices(discParameters) =
         1..Len(parameter)

\* The optimizer has written weights of both segments of an allocated buffer.
C5_Witness ==
  /\ Loaded
  /\ pc = "idle"
  /\ Len(parameter) = Sum(GeneratorLayers) + Sum(DiscriminatorLayers)
  /\ Slice(parameter, genParameters) = Fill(genWeights, Trained)
  /\ Slice(parameter, discParameters) = Fill(discWeights, Trained)

\* C6: a ResetData call on an engine whose reset flag is set leaves the
\* parameter buffer, genWeights, discWeights and the two views as they
\* were; on an engine whose flag is clear it runs Reset; and no operation
\* other than loading an archive clears the flag.
C6_ResetLatch ==
  /\ [][ResetDataCall =>
          IF reset
          THEN UNCHANGED <<parameter, genWeights, discWeights, genParameters,
                           discParameters>>
          ELSE parameter' = Fill(Sum(generatorNetwork)
                                   + Sum(discriminatorNetwork), InitWeight)]_vars
  /\ [][reset' \/ ~ResetDataCall]_vars
  /\ [][reset' \/ ~reset \/ Load]_vars

\* ResetData has been called on an engine that had been trained: the step
\* counter is back at zero, no gradient call has been made since, and the
\* buffer still holds trained weights.
C6_Witness ==
  /\ pc = "idle"
  /\ Loaded
  /\ reset
  /\ ~Called
  /\ currentBatch = 0
  /\ gradient # <<>>
  /\ Slice(parameter, discParameters) = Fill(discWeights, Trained)

\* C7: once data has been loaded both sub-models' deterministic flags equal
\* the engine's; the engine's flag is true after ResetData, Evaluate,
\* Predict and a load, false during and after a gradient call, and left as
\* it was by Forward and Shuffle.
C7_DeterministicFlags ==
  /\ [](Loaded => /\ genDeterministic = deterministic
                  /\ discDeterministic = deterministic)
  /\ [][deterministic' \/
          ~(ResetDataCall \/ Evaluate \/ EvaluateEnd \/ Predict \/ Load)]_vars
  /\ [][~deterministic' \/ ~(EWGEnter \/ EWGReturn)]_vars
  /\ [][deterministic' = deterministic \/ ~(Forward \/ Shuffle)]_vars

\* A gradient call has returned: the engine and both sub-models are in
\* training mode.
C7_Witness ==
  /\ pc = "idle"
  /\ Loaded
  /\ Called
  /\ ~deterministic
  /\ ~genDeterministic
  /\ ~discDeterministic

\* C8: every ResetData call sets currentBatch to 0, stores the labels it is
\* given and leaves preTrainSize as it was, so the first gradient call after
\* a ResetData is entered with currentBatch = 0.
C8_ResetDataRestartsBatches ==
  /\ [][\A n \in 1..MaxSamples, rl \in Labels, fl \in Labels :
          ResetData(n, rl, fl) =>
            /\ currentBatch' = 0
            /\ realLabel' = rl
            /\ fakeLabel' = fl
            /\ preTrainSize' = preTrainSize]_vars
  /\ [][(EWGEnter /\ ~Called) => (currentBatch = 0 /\ entry'[1].batch = 0)]_vars

\* ResetData has been called after a gradient call that left the pretraining
\* counter positive: the step counter is zero, the labels are the given
\* ones, the counter is still positive.
C8_Witness ==
  /\ pc = "idle"
  /\ ~Called
  /\ gradient # <<>>
  /\ currentBatch = 0
  /\ realLabel = 1
  /\ fakeLabel = 1
  /\ preTrainSize = 1

\* C9: Gradient and EvaluateWithGradient are the same state transition: every
\* step Gradient can take from a state, with its gradient output and its
\* resulting engine state, is a step EvaluateWithGradient can take from that
\* state, and conversely.
C9_GradientIsEvaluateWithGradient ==
  /\ [][Gradient => EvaluateWithGradient]_vars
  /\ [][EvaluateWithGradient => Gradient]_vars

\* A gradient call has returned with the step counter advanced and the
\* discriminator segment of the output written.
C9_Witness ==
  /\ pc = "idle"
  /\ Called
  /\ currentBatch = entry[1].batch + 1
  /\ ~deterministic
  /\ Len(gradient) = genWeights + discWeights
  /\ NoneZero(gradient, DiscriminatorSegment)

Count(seq, idx, v) == Cardinality({k \in idx : seq[k] = v})
RealColumns == 1..numFunctions

\* C10: Shuffle permutes the real-sample columns of the predictor matrix
\* (each column value occurs among them as often after the call as before)
\* and leaves the trailing batchSize columns, the response vector, the
\* parameter buffer, currentBatch and preTrainSize as they were.
C10_ShufflePermutes ==
  [][Shuffle =>
      /\ Len(predictors') = Len(predictors)
      /\ \A v \in {predictors[k] : k \in RealColumns}
                   \cup {predictors'[k] : k \in RealColumns} :
           Count(predictors', RealColumns, v) = Count(predictors, RealColumns, v)
      /\ \A k \in Trailing : predictors'[k] = predictors[k]
      /\ UNCHANGED <<responses, parameter, currentBatch, preTrainSize>>]_vars

\* The real columns are no longer in the order ResetData loaded them in, and
\* the generated columns written before the shuffle are in place.
C10_Witness ==
  /\ pc = "idle"
  /\ numFunctions = 2
  /\ predictors[1] = 2
  /\ predictors[2] = 1
  /\ \A k \in Trailing : predictors[k] \in GenVals

\* C11: FrechetDistance::Evaluate(X, X) is 0 for every sample matrix X,
\* whatever the off-diagonal entries of its covariance.
C11_SelfDistanceZero ==
  (metric.result # <<>> /\ metric.p = metric.pw) => metric.result[1] = Real(0)

\* C12: saving writes the parameter buffer, the reset flag, genWeights and
\* discWeights to the archive; loading sets these four fields to the archived
\* values, makes the generator's view the range [0, genWeights) and the
\* discriminator's view the range [genWeights, genWeights + discWeights) of
\* the loaded buffer, and puts the engine and both sub-models in inference
\* mode.
C12_SaveLoadRoundTrip ==
  /\ [][~Save \/
          archive'[1] = [parameter |-> parameter, reset |-> reset,
                         genWeights |-> genWeights,
                         discWeights |-> discWeights]]_vars
  /\ [][~Load \/
          /\ parameter' = archive[1].parameter
          /\ reset' = archive[1].reset
          /\ genWeights' = archive[1].genWeights
          /\ discWeights' = archive[1].discWeights
          /\ genParameters' = View("parameter", 0, genWeights')
          /\ discParameters' = View("parameter", genWeights', discWeights')
          /\ Indices(discParameters') = (genWeights' + 1)..Len(parameter')
          /\ deterministic'
          /\ genDeterministic'
          /\ discDeterministic']_vars

\* An engine that was trained, saved and trained on holds the archived
\* buffer again, with the views on it, in inference mode after a gradient
\* call.
C12_Witness ==
  /\ pc = "idle"
  /\ Called
  /\ archive # <<>>
  /\ archive[1].reset
  /\ archive[1].parameter =
       Fill(genWeights, InitWeight) \o Fill(discWeights, Trained)
  /\ entry[1].gate
  /\ NoneZero(gradient, GeneratorSegment)
  /\ parameter = archive[1].parameter
  /\ genParameters = View("parameter", 0, archive[1].genWeights)
  /\ discParameters =
       View("parameter", archive[1].genWeights, archive[1].discWeights)
  /\ deterministic
  /\ genDeterministic
  /\ discDeterministic

\* C13: on every gradient call, the first one on a fresh engine included, at
\* the moment the discriminator is about to be evaluated on the generated
\* slice the scratch buffer has exactly discWeights elements, all zero, and
\* the output gradient buffer has exactly genWeights + discWeights elements.
C13_ScratchSizedForDiscriminator ==
  pc = "EWGFake" =>
    /\ Len(noiseGradientDiscriminator) = discWeights
    /\ AllZero(noiseGradientDiscriminator, 1..Len(noiseGradientDiscriminator))
    /\ Len(gradient) = genWeights + discWeights

\* C14: whenever the discriminator's loss on the generated slice is about to
\* be computed, in Evaluate or in a gradient call, the trailing batchSize
\* response columns all equal fakeLabel, whatever the preceding calls left
\* there.
C14_GeneratedSliceLabelledFake ==
  pc \in {"EvaluateFake", "EWGFake"} =>
    \A k \in Trailing : responses[k] = fakeLabel

\* Evaluate is about to take the loss of the generated slice after a gradient
\* call whose generator-update sub-step had relabelled the slice as real.
C14_Witness ==
  /\ pc = "EvaluateFake"
  /\ Called
  /\ entry[1].gate
  /\ realLabel # fakeLabel
  /\ \A k \in Trailing : responses[k] = fakeLabel

\* The columns Evaluate (lines 311-314) and EvaluateWithGradient (line 397,
\* through the discriminator's views of the fused matrices) read as the real
\* slice at minibatch index i: batchSize columns starting at column i
\* (counted from 0).
RealSlice(i) == (i + 1)..(i + batchSize)

\* C16: for every minibatch index i below numFunctions with which Evaluate
\* or a gradient call is entered, the batchSize columns read as the real
\* slice are all real training columns, labelled realLabel; none of them is
\* a trailing column.
C16_RealSliceIsReal ==
  /\ [][\A i \in 0..(numFunctions - 1), s \in GenVals :
          EvaluateBegin(i, s) =>
            \A k \in RealSlice(i) :
              k \in RealColumns /\ k \notin Trailing /\ responses[k] = realLabel]_vars
  /\ [][\A i \in 0..(numFunctions - 1), fresh \in BOOLEAN, g \in GradVals,
           s \in GenVals :
          EWGBegin(i, IF fresh THEN <<>> ELSE gradient, g, s) =>
            \A k \in RealSlice(i) :
              k \in RealColumns /\ k \notin Trailing /\ responses[k] = realLabel]_vars

\* A step of Evaluate or of a gradient call.
EvaluationStep == pc # "idle" \/ pc' # "idle"

\* C17: no step of Evaluate or of a gradient call changes a real-sample
\* column of the predictor matrix or of the response vector, or the number
\* of columns of either; once data is loaded both have numFunctions +
\* batchSize columns and every real-sample response column equals realLabel.
C17_OnlyTrailingColumnsWritten ==
  /\ [][~EvaluationStep \/
          /\ Len(predictors') = Len(predictors)
          /\ Len(responses') = Len(responses)
          /\ \A k \in RealColumns :
               predictors'[k] = predictors[k] /\ responses'[k] = responses[k]]_vars
  /\ [](Loaded =>
          /\ Len(predictors) = numFunctions + batchSize
          /\ Len(responses) = numFunctions + batchSize
          /\ \A k \in RealColumns : responses[k] = realLabel)

\* A gradient call has returned after writing generated samples and both
\* labels to the trailing columns: the two training columns and their
\* labels are as ResetData loaded them.
C17_Witness ==
  /\ pc = "idle"
  /\ Called
  /\ entry[1].gate
  /\ numFunctions = 2
  /\ realLabel = 1
  /\ fakeLabel = 0
  /\ predictors = TrainData(2) \o Fill(batchSize, 9)
  /\ responses = Fill(2 + batchSize, 1)

\* C18: no step of Evaluate, Forward, Predict or Shuffle changes
\* currentBatch or preTrainSize; a gradient call (EvaluateWithGradient or
\* Gradient) leaves both as they were until it returns, and on return has
\* advanced currentBatch by exactly one and decremented a positive
\* preTrainSize by one; no other step raises currentBatch or changes
\* preTrainSize.
C18_OnlyGradientCallsCount ==
  /\ [][UNCHANGED <<currentBatch, preTrainSize>> \/
          ~(Evaluate \/ EvaluateEnd \/ Forward \/ Predict \/ Shuffle)]_vars
  /\ [][UNCHANGED <<currentBatch, preTrainSize>> \/ pc' = "idle"]_vars
  /\ [][~EWGReturn \/
          /\ currentBatch = entry[1].batch
          /\ currentBatch' = entry[1].batch + 1
          /\ preTrainSize' = IF entry[1].pre > 0 THEN entry[1].pre - 1 ELSE 0]_vars
  /\ [][EWGReturn \/
          (currentBatch' <= currentBatch /\ preTrainSize' = preTrainSize)]_vars

\* Two gradient calls have returned and an Evaluate or Predict has run since:
\* the step counter stands at two and the pretraining counter has gone from
\* one to zero on the second call.
C18_Witness ==
  /\ pc = "idle"
  /\ Called
  /\ entry[1].batch = 1
  /\ entry[1].pre = 1
  /\ currentBatch = 2
  /\ preTrainSize = 0
  /\ deterministic
  /\ numFunctions = 2
  /\ predictors[1] = 2

\* A step that enters Evaluate, a gradient call, Forward or Predict.
LazyEntry == Evaluate \/ EWGEnter \/ Forward \/ Predict

\* C19: Evaluate, a gradient call, Forward and Predict run Reset exactly when
\* the parameter buffer is empty on entry: an empty buffer is allocated to
\* genWeights + discWeights elements and initialised, with both views and
\* the latch set, before any forward pass; a non-empty buffer, the two
\* weight counts, the views and the latch are left as they were, on entry
\* and by every later step of the routine.
C19_LazyResetOnEmptyBuffer ==
  /\ [][~LazyEntry \/
          IF parameter = <<>>
          THEN /\ parameter' = Fill(Sum(generatorNetwork)
                                      + Sum(discriminatorNetwork), InitWeight)
               /\ Len(parameter') = genWeights' + discWeights'
               /\ genParameters' = View("parameter", 0, genWeights')
               /\ discParameters' = View("parameter", genWeights', discWeights')
               /\ reset'
          ELSE UNCHANGED <<parameter, genWeights, discWeights, genParameters,
                           discParameters, reset>>]_vars
  /\ [][pc = "idle" \/
          UNCHANGED <<parameter, genWeights, discWeights, genParameters,
                      discParameters, reset>>]_vars
  /\ [](pc # "idle" => parameter # <<>>)

\* An engine whose buffer had been emptied by loading an archive taken before
\* allocation is inside its second gradient call since the data was loaded,
\* with an initialised buffer and the latch set.
C19_Witness ==
  /\ pc = "EWGFake"
  /\ archive # <<>>
  /\ archive[1].parameter = <<>>
  /\ ~archive[1].reset
  /\ entry[1].batch = 1
  /\ reset
  /\ parameter = Fill(genWeights + discWeights, InitWeight)
  /\ Len(parameter) = Sum(GeneratorLayers) + Sum(DiscriminatorLayers)

\* The generator-update sub-step is running.
GeneratorUpdate == pc = "EWGGenerator"
\* A returned call updated the generator exactly if it was entered with
\* currentBatch a multiple of generatorUpdateStep.
OnCadence ==
  (pc = "idle" /\ Called) =>
    (entry[1].gate <=> entry[1].batch % generatorUpdateStep = 0)

\* C15: in a run of gradient calls after one ResetData, with any
\* generatorUpdateStep >= 1 and any initial preTrainSize p: no generator
\* update happens in the first p calls (the calls entered with currentBatch
\* below p), a generator update eventually happens, and from the first
\* update on a call updates the generator exactly if it was entered with
\* currentBatch a multiple of generatorUpdateStep.
C15_GeneratorCadence ==
  /\ \A p \in 0..MaxPreTrain :
       (preTrainSize = p) => [](GeneratorUpdate => entry[1].batch >= p)
  /\ <>GeneratorUpdate
  /\ [](GeneratorUpdate => []OnCadence)

\* With a cadence of two the generator has been updated on the call entered
\* with currentBatch = 2, after a call that did not update it.
C15_Witness ==
  /\ pc = "idle"
  /\ Called
  /\ generatorUpdateStep = 2
  /\ entry[1].batch = 2
  /\ entry[1].gate
  /\ currentBatch = 3
  /\ NoneZero(gradient, GeneratorSegment)
====
